---- MODULE Spec2Model ----
(***************************************************************************)
(* Model of scripts/calculate_elo.py: the ELO calculator of the AgentBeats *)
(* Werewolves leaderboard.  One run of main() loads the cumulative state   *)
(* and the per-agent histories, folds every result file that is not yet    *)
(* processed, saves the state and regenerates the index files.             *)
(*                                                                         *)
(* Representation.  A rating is held in tenths of a point (1000.0 is       *)
(* 10000): every rating the program stores is INITIAL_ELO or the result of *)
(* round(.., 1).  An opponents' average is held multiplied by Scale, so    *)
(* that the average of up to 7 ratings is an integer.  A timestamp is a    *)
(* positive integer ordered like the ISO-8601 strings of the files, and 0  *)
(* stands for a missing one (None, which the sort keys turn into "").      *)
(* An agent identifier is a sequence of characters, the empty sequence     *)
(* being the empty string.  A file name of results/ is its rank in the     *)
(* sorted directory listing.  An optional JSON field is <<>> when absent   *)
(* and <<v>> when present.  The role and metrics fields of a score entry   *)
(* are copied into the history unread and are left out, as are the         *)
(* last_updated stamps and the console output other than the two           *)
(* rejection messages.                                                     *)
(***************************************************************************)
EXTENDS Integers, Sequences, FiniteSets, TLC

K_FACTOR == 32
INITIAL_ELO == 1000
RosterSize == 8

\* The number of result files the environment creates.
MaxGames == 2

\* lcm(1..7): the opponents' average of n <= 7 ratings, times Scale, is an integer.
Scale == 420

InitialRating == 10 * INITIAL_ELO

NoAgent == <<>>

Range(s) == {s[i] : i \in DOMAIN s}

RECURSIVE SumSeq(_)
SumSeq(s) == IF s = <<>> THEN 0 ELSE Head(s) + SumSeq(Tail(s))

(***************************************************************************)
(* Rating model.  With x = opponents_avg - player_elo in points, a win is  *)
(* worth round(32 * (1 - 1/(1 + 10^(x/400))), 1), a number of tenths that  *)
(* grows with x.  GainThreshold[k] is the least value of 10*Scale*x at     *)
(* which that number reaches k: ceil(4200 * 400 * log10((2k-1)/(641-2k))). *)
(* The thresholds are irrational, so no input sits on a rounding tie, and  *)
(* a loss is worth the win's value minus 32.0.                             *)
(***************************************************************************)
GainThreshold == <<
    -4713241, -3909390, -3534390, -3286593, -3100921, -2952193, -2827984, -2721245,
    -2627585, -2544087, -2468711, -2399976, -2336770, -2278242, -2223720, -2172669,
    -2124653, -2079314, -2036354, -1995520, -1956600, -1919409, -1883791, -1849607,
    -1816737, -1785075, -1754528, -1725012, -1696453, -1668784, -1641945, -1615883,
    -1590547, -1565894, -1541882, -1518474, -1495637, -1473338, -1451549, -1430244,
    -1409397, -1388985, -1368988, -1349385, -1330159, -1311291, -1292767, -1274570,
    -1256687, -1239104, -1221809, -1204790, -1188036, -1171536, -1155282, -1139262,
    -1123470, -1107895, -1092530, -1077368, -1062401, -1047623, -1033027, -1018606,
    -1004356, -990270, -976342, -962568, -948943, -935462, -922120, -908914,
    -895838, -882889, -870063, -857357, -844767, -832288, -819919, -807656,
    -795496, -783435, -771472, -759603, -747825, -736136, -724534, -713017,
    -701580, -690224, -678945, -667741, -656610, -645551, -634560, -623637,
    -612780, -601986, -591255, -580583, -569971, -559415, -548915, -538469,
    -528076, -517733, -507441, -497196, -486999, -476847, -466740, -456676,
    -446654, -436672, -426730, -416827, -406960, -397130, -387335, -377574,
    -367845, -358149, -348484, -338848, -329242, -319663, -310111, -300586,
    -291086, -281610, -272157, -262727, -253319, -243931, -234564, -225215,
    -215885, -206573, -197277, -187997, -178732, -169481, -160244, -151019,
    -141807, -132606, -123415, -114235, -105063, -95899, -86743, -77594,
    -68451, -59313, -50180, -41051, -31925, -22802, -13680, -4560,
    4561, 13681, 22803, 31926, 41052, 50181, 59314, 68452,
    77595, 86744, 95900, 105064, 114236, 123416, 132607, 141808,
    151020, 160245, 169482, 178733, 187998, 197278, 206574, 215886,
    225216, 234565, 243932, 253320, 262728, 272158, 281611, 291087,
    300587, 310112, 319664, 329243, 338849, 348485, 358150, 367846,
    377575, 387336, 397131, 406961, 416828, 426731, 436673, 446655,
    456677, 466741, 476848, 487000, 497197, 507442, 517734, 528077,
    538470, 548916, 559416, 569972, 580584, 591256, 601987, 612781,
    623638, 634561, 645552, 656611, 667742, 678946, 690225, 701581,
    713018, 724535, 736137, 747826, 759604, 771473, 783436, 795497,
    807657, 819920, 832289, 844768, 857358, 870064, 882890, 895839,
    908915, 922121, 935463, 948944, 962569, 976343, 990271, 1004357,
    1018607, 1033028, 1047624, 1062402, 1077369, 1092531, 1107896, 1123471,
    1139263, 1155283, 1171537, 1188037, 1204791, 1221810, 1239105, 1256688,
    1274571, 1292768, 1311292, 1330160, 1349386, 1368989, 1388986, 1409398,
    1430245, 1451550, 1473339, 1495638, 1518475, 1541883, 1565895, 1590548,
    1615884, 1641946, 1668785, 1696454, 1725013, 1754529, 1785076, 1816738,
    1849608, 1883792, 1919410, 1956601, 1995521, 2036355, 2079315, 2124654,
    2172670, 2223721, 2278243, 2336771, 2399977, 2468712, 2544088, 2627586,
    2721246, 2827985, 2952194, 3100922, 3286594, 3534391, 3909391, 4713242 >>

\* The number of thresholds that are <= diff, a number known to lie in lo..hi
\* (the thresholds increase).
RECURSIVE ThresholdsBelow(_, _, _)
ThresholdsBelow(diff, lo, hi) ==
    IF lo = hi THEN lo
    ELSE LET mid == (lo + hi + 1) \div 2
         IN  IF diff >= GainThreshold[mid]
             THEN ThresholdsBelow(diff, mid, hi)
             ELSE ThresholdsBelow(diff, lo, mid - 1)

\* round(K_FACTOR * (1.0 - calculate_expected_score(player, opponent)), 1) in
\* tenths, for opponent - player = diff / (10 * Scale).
RoundedGain(diff) == ThresholdsBelow(diff, 0, Len(GainThreshold))

\* player_elo in tenths, opponents_avg_elo in tenths times Scale; the result in tenths.
calculate_elo_delta(player_elo, opponents_avg_elo, won) ==
    LET gain == RoundedGain(opponents_avg_elo - Scale * player_elo)
    IN  IF won THEN gain ELSE gain - 10 * K_FACTOR

(***************************************************************************)
(* Cumulative state: state["agents"] is a dictionary in insertion order    *)
(* (order lists its keys), state["processed_games"] a list.                *)
(***************************************************************************)
EmptyState == [order |-> <<>>, agents |-> <<>>, processed_games |-> <<>>]

\* load_elo_state's default when elo_state.json does not exist.
load_elo_state(stored) == stored

get_agent_elo(state, agent_id, elo_type) ==
    IF agent_id \in DOMAIN state.agents
    THEN state.agents[agent_id][elo_type]
    ELSE InitialRating

\* participants.get(player_name, "")
get_participants_from_game(game_data) == game_data.participants

ParticipantsGet(participants, player_name) ==
    IF player_name \in DOMAIN participants THEN participants[player_name] ELSE NoAgent

\* Mapped without the test: an entry with no agent is folded like any other.
MappedAlways(agent_id) == TRUE

\* The truthiness test "if not agent_id" / "if other_agent_id".
Mapped(agent_id) == agent_id # NoAgent

RECURSIVE OpponentElos(_, _, _, _, _, _)
OpponentElos(state, participants, player_name, player_team, scores, elo_type) ==
    IF scores = <<>> THEN <<>>
    ELSE LET score == Head(scores)
             rest == OpponentElos(state, participants, player_name, player_team,
                                  Tail(scores), elo_type)
             other_agent_id == ParticipantsGet(participants, score.player_name)
         IN  IF /\ score.player_name # player_name
                /\ score.team # player_team
                /\ Mapped(other_agent_id)
             THEN <<get_agent_elo(state, other_agent_id, elo_type)>> \o rest
             ELSE rest

\* The average, times Scale.
get_opponents_avg_elo(state, participants, player_name, player_team, scores, elo_type) ==
    LET opponent_elos == OpponentElos(state, participants, player_name, player_team,
                                      scores, elo_type)
    IN  IF opponent_elos = <<>>
        THEN Scale * InitialRating
        ELSE (Scale \div Len(opponent_elos)) * SumSeq(opponent_elos)

\* All truthy timestamps of every result block's action_log.
RECURSIVE Timestamps(_)
Timestamps(results) ==
    IF results = <<>> THEN {}
    ELSE {t \in Range(Head(results).action_log) : t # 0} \cup Timestamps(Tail(results))

SetMin(S) == CHOOSE x \in S : \A y \in S : x <= y
SetMax(S) == CHOOSE x \in S : \A y \in S : x >= y

get_game_timestamps(game_data) ==
    LET ts == Timestamps(game_data.results)
    IN  IF ts = {} THEN [start_ts |-> 0, end_ts |-> 0]
        ELSE [start_ts |-> SetMin(ts), end_ts |-> SetMax(ts)]

NewAgent ==
    [general_elo |-> InitialRating, werewolf_elo |-> InitialRating,
     villager_elo |-> InitialRating, games_played |-> 0, wins |-> 0, losses |-> 0,
     games_as_werewolf |-> 0, games_as_villager |-> 0,
     wins_as_werewolf |-> 0, wins_as_villager |-> 0]

init_agent_state(state, agent_id) ==
    IF agent_id \in DOMAIN state.agents THEN state
    ELSE [state EXCEPT !.order = Append(@, agent_id),
                       !.agents = (agent_id :> NewAgent) @@ @]

Bump(won) == IF won THEN 1 ELSE 0

\* Lines 218-225: the general rating and the played/won/lost counters.
UpdateGeneral(agent, elo_after, won) ==
    [agent EXCEPT !.general_elo = elo_after,
                  !.games_played = @ + 1,
                  !.wins = @ + Bump(won),
                  !.losses = @ + Bump(~won)]

\* UpdateRole counting a villager game only under the label "villagers".
UpdateRoleStrict(agent, team, won, opponents_avg) ==
    IF team = "werewolves"
    THEN [agent EXCEPT
            !.games_as_werewolf = @ + 1,
            !.wins_as_werewolf = @ + Bump(won),
            !.werewolf_elo = @ + calculate_elo_delta(@, opponents_avg, won)]
    ELSE IF team = "villagers"
    THEN [agent EXCEPT
            !.games_as_villager = @ + 1,
            !.wins_as_villager = @ + Bump(won),
            !.villager_elo = @ + calculate_elo_delta(@, opponents_avg, won)]
    ELSE agent

\* UpdateRole whose villager branch writes the werewolf rating.
UpdateRoleCrossed(agent, team, won, opponents_avg) ==
    IF team = "werewolves"
    THEN [agent EXCEPT
            !.games_as_werewolf = @ + 1,
            !.wins_as_werewolf = @ + Bump(won),
            !.werewolf_elo = @ + calculate_elo_delta(@, opponents_avg, won)]
    ELSE [agent EXCEPT
            !.games_as_villager = @ + 1,
            !.wins_as_villager = @ + Bump(won),
            !.werewolf_elo = agent.villager_elo
                             + calculate_elo_delta(agent.villager_elo, opponents_avg, won)]

\* Lines 227-243: the role-specific counters and rating.
UpdateRole(agent, team, won, opponents_avg) ==
    IF team = "werewolves"
    THEN [agent EXCEPT
            !.games_as_werewolf = @ + 1,
            !.wins_as_werewolf = @ + Bump(won),
            !.werewolf_elo = @ + calculate_elo_delta(@, opponents_avg, won)]
    ELSE [agent EXCEPT
            !.games_as_villager = @ + 1,
            !.wins_as_villager = @ + Bump(won),
            !.villager_elo = @ + calculate_elo_delta(@, opponents_avg, won)]

\* agent_histories: the keys loaded from the index files (a dictionary filled in
\* directory order, which nothing below depends on), then the keys added by this
\* run in insertion order.
EmptyHistories == [loaded |-> {}, added |-> <<>>, hist |-> <<>>]

HistoryKeys(agent_histories) == agent_histories.loaded \cup Range(agent_histories.added)

AppendHistory(agent_histories, agent_id, entry) ==
    IF agent_id \in HistoryKeys(agent_histories)
    THEN [agent_histories EXCEPT !.hist[agent_id] = Append(@, entry)]
    ELSE [agent_histories EXCEPT !.added = Append(@, agent_id),
                                 !.hist = (agent_id :> <<entry>>) @@ @]

(***************************************************************************)
(* One iteration of process_game's loop over scores (lines 185-264), on    *)
(* acc = the state, the histories, the scores list as rewritten so far and *)
(* the modified flag.                                                      *)
(***************************************************************************)
ApplyEntry(acc, i, participants, filename, ts) ==
    LET score == acc.scores[i]
        player_name == score.player_name
        agent_id == ParticipantsGet(participants, player_name)
        won == score.won
        team == score.team
    IN  IF ~Mapped(agent_id) THEN acc
        ELSE
        LET st0 == init_agent_state(acc.state, agent_id)
            elo_before == get_agent_elo(st0, agent_id, "general_elo")
            opponents_avg == get_opponents_avg_elo(st0, participants, player_name,
                                                   team, acc.scores, "general_elo")
            elo_delta == calculate_elo_delta(elo_before, opponents_avg, won)
            elo_after == elo_before + elo_delta
            differs == score.elo_delta # <<elo_delta>> \/ score.elo_after # <<elo_after>>
            agent1 == UpdateGeneral(st0.agents[agent_id], elo_after, won)
            agent2 == UpdateRole(agent1, team, won, opponents_avg)
            entry == [game |-> filename, player_name |-> player_name, team |-> team,
                      won |-> won, elo_before |-> elo_before, elo_delta |-> elo_delta,
                      elo_after |-> elo_after,
                      start_time |-> ts.start_ts, end_time |-> ts.end_ts]
        IN  [state |-> [st0 EXCEPT !.agents[agent_id] = agent2],
             hist |-> AppendHistory(acc.hist, agent_id, entry),
             scores |-> IF differs
                        THEN [acc.scores EXCEPT ![i] =
                                [score EXCEPT !.elo_delta = <<elo_delta>>,
                                              !.elo_after = <<elo_after>>]]
                        ELSE acc.scores,
             modified |-> acc.modified \/ differs]

\* The loop over scores after its first n iterations.
RECURSIVE FoldScores(_, _, _, _, _)
FoldScores(acc, n, participants, filename, ts) ==
    IF n = 0 THEN acc
    ELSE ApplyEntry(FoldScores(acc, n - 1, participants, filename, ts), n,
                    participants, filename, ts)

\* Lines 163-171: the index of the first result block with a "scores" key, or 0.
RECURSIVE FirstScoresBlock(_, _)
FirstScoresBlock(results, k) ==
    IF k > Len(results) THEN 0
    ELSE IF results[k].has_scores THEN k
    ELSE FirstScoresBlock(results, k + 1)

FindScores(results) ==
    LET k == FirstScoresBlock(results, 1)
    IN  IF k = 0 THEN <<>> ELSE results[k].scores

\* AlreadyProcessed without the look-up: every file is taken for a new one.
NeverProcessed(state, filename) == FALSE

\* Lines 152 and 462.
AlreadyProcessed(state, filename) == filename \in Range(state.processed_games)

(***************************************************************************)
(* process_game: the outcome, the new state and histories, the game file   *)
(* as it is on disk afterwards, and the returned modified flag.            *)
(***************************************************************************)
process_game(state, filename, game_data, agent_histories) ==
    LET unchanged(outcome) ==
            [outcome |-> outcome, state |-> state, hist |-> agent_histories,
             game_data |-> game_data, modified |-> FALSE]
        participants == get_participants_from_game(game_data)
        results == game_data.results
        k == FirstScoresBlock(results, 1)
        scores == FindScores(results)
    IN  IF AlreadyProcessed(state, filename) THEN unchanged("already")
        ELSE IF Cardinality(DOMAIN participants) # RosterSize THEN unchanged("participants")
        ELSE IF scores = <<>> THEN unchanged("no scores")
        ELSE
        LET ts == get_game_timestamps(game_data)
            done == FoldScores([state |-> state, hist |-> agent_histories,
                                scores |-> scores, modified |-> FALSE],
                               Len(scores), participants, filename, ts)
        IN  [outcome |-> "folded",
             state |-> [done.state EXCEPT !.processed_games = Append(@, filename)],
             hist |-> done.hist,
             game_data |-> IF done.modified
                           THEN [game_data EXCEPT !.results[k].scores = done.scores]
                           ELSE game_data,
             modified |-> done.modified]

(***************************************************************************)
(* Index projections.                                                      *)
(***************************************************************************)
\* list.sort(key=..., reverse=True), key[i] being the key of s[i]: descending by
\* key, elements of equal key keep their order.
SortDescBy(s, key) ==
    LET n == Len(s)
        pos(i) == Cardinality({j \in 1..n : key[j] > key[i]})
                  + Cardinality({j \in 1..i : key[j] = key[i]})
    IN  [p \in 1..n |-> s[CHOOSE i \in 1..n : pos(i) = p]]

\* sorted(...) of a list of file names.
SortAsc(s) == SortDescBy(s, [i \in DOMAIN s |-> 0 - s[i]])

\* sorted(RESULTS_DIR.glob("*.json"))
SortedNames(S) ==
    [p \in 1..Cardinality(S) |-> CHOOSE x \in S : Cardinality({y \in S : y < x}) = p - 1]

RECURSIVE SelectGames(_, _)
SelectGames(names, disk) ==
    IF names = <<>> THEN <<>>
    ELSE LET filename == Head(names)
             rest == SelectGames(Tail(names), disk)
         IN  IF filename \notin DOMAIN disk THEN rest
             ELSE LET game_data == disk[filename]
                      participants == game_data.participants
                      ts == get_game_timestamps(game_data)
                  IN  <<[filename |-> filename,
                         start_time |-> ts.start_ts, end_time |-> ts.end_ts,
                         participants |-> Range(participants),
                         participant_count |-> Cardinality(DOMAIN participants)]>> \o rest

\* indexes/games.json (the winner and the traceability URL are copies of input).
generate_games_index(state, disk) ==
    LET games == SelectGames(SortAsc(state.processed_games), disk)
    IN  SortDescBy(games, [i \in DOMAIN games |-> games[i].end_time])

\* round(wins * 100.0 / games_played, 1) in tenths: Python rounds a tie to even.
WinRate(wins, games_played) ==
    LET q == (1000 * wins) \div games_played
        r == (1000 * wins) % games_played
    IN  IF 2 * r > games_played \/ (2 * r = games_played /\ q % 2 = 1) THEN q + 1 ELSE q

\* Ranked without the test: an agent with no game is listed too.
RankedAlways(data) == TRUE

\* Line 332: "if games_played == 0: continue".
Ranked(data) == data.games_played # 0

RECURSIVE Rankings(_, _)
Rankings(order, agents) ==
    IF order = <<>> THEN <<>>
    ELSE LET agent_id == Head(order)
             data == agents[agent_id]
             rest == Rankings(Tail(order), agents)
         IN  IF ~Ranked(data) THEN rest
             ELSE <<[agent_id |-> agent_id,
                     general_elo |-> data.general_elo,
                     werewolf_elo |-> data.werewolf_elo,
                     villager_elo |-> data.villager_elo,
                     games_played |-> data.games_played,
                     wins |-> data.wins,
                     losses |-> data.losses,
                     win_rate |-> IF data.games_played > 0
                                  THEN WinRate(data.wins, data.games_played) ELSE 0,
                     games_as_werewolf |-> data.games_as_werewolf,
                     games_as_villager |-> data.games_as_villager,
                     wins_as_werewolf |-> data.wins_as_werewolf,
                     wins_as_villager |-> data.wins_as_villager]>> \o rest

\* Line 354: rankings.sort(key=lambda x: x["general_elo"], reverse=True).
SortRankings(rankings) ==
    SortDescBy(rankings, [i \in DOMAIN rankings |-> rankings[i].general_elo])

\* indexes/leaderboard.json
generate_leaderboard_index(state) ==
    LET rankings == SortRankings(Rankings(state.order, state.agents))
    IN  [i \in DOMAIN rankings |->
            [agent_id |-> rankings[i].agent_id,
             general_elo |-> rankings[i].general_elo,
             werewolf_elo |-> rankings[i].werewolf_elo,
             villager_elo |-> rankings[i].villager_elo,
             games_played |-> rankings[i].games_played,
             wins |-> rankings[i].wins,
             losses |-> rankings[i].losses,
             win_rate |-> rankings[i].win_rate,
             games_as_werewolf |-> rankings[i].games_as_werewolf,
             games_as_villager |-> rankings[i].games_as_villager,
             wins_as_werewolf |-> rankings[i].wins_as_werewolf,
             wins_as_villager |-> rankings[i].wins_as_villager,
             rank |-> i]]

\* agent_id.replace("/", "_").replace("\\", "_")
SafeId(agent_id) ==
    [i \in DOMAIN agent_id |-> IF agent_id[i] \in {"/", "\\"} THEN "_" ELSE agent_id[i]]

AgentDocument(state, agent_id, history) ==
    [agent_id |-> agent_id,
     current_elo |-> [general |-> get_agent_elo(state, agent_id, "general_elo"),
                      werewolf |-> get_agent_elo(state, agent_id, "werewolf_elo"),
                      villager |-> get_agent_elo(state, agent_id, "villager_elo")],
     games_played |-> IF agent_id \in DOMAIN state.agents
                      THEN state.agents[agent_id].games_played ELSE 0,
     game_history |-> SortDescBy(history, [i \in DOMAIN history |-> history[i].end_time])]

WriteAgentFile(dir, state, agent_id, history) ==
    (SafeId(agent_id) :> AgentDocument(state, agent_id, history)) @@ dir

\* The documents of the keys loaded at the start of the run: they come from
\* distinct files, so each goes back to the file it was read from.
WriteLoaded(dir, state, agent_histories) ==
    [f \in DOMAIN dir \cup {SafeId(a) : a \in agent_histories.loaded} |->
        IF \E a \in agent_histories.loaded : SafeId(a) = f
        THEN LET a == CHOOSE a \in agent_histories.loaded : SafeId(a) = f
             IN  AgentDocument(state, a, agent_histories.hist[a])
        ELSE dir[f]]

RECURSIVE WriteAdded(_, _, _, _)
WriteAdded(dir, state, added, hist) ==
    IF added = <<>> THEN dir
    ELSE WriteAdded(WriteAgentFile(dir, state, Head(added), hist[Head(added)]),
                    state, Tail(added), hist)

\* indexes/agents/<safe_id>.json, written in the dictionary's order.
generate_agent_indexes(state, agent_histories, dir) ==
    WriteAdded(WriteLoaded(dir, state, agent_histories), state,
               agent_histories.added, agent_histories.hist)

load_existing_agent_histories(dir) ==
    LET ids == {dir[f].agent_id : f \in {f \in DOMAIN dir : Mapped(dir[f].agent_id)}}
    IN  [loaded |-> ids,
         added |-> <<>>,
         hist |-> [a \in ids |->
                     dir[CHOOSE f \in DOMAIN dir : dir[f].agent_id = a].game_history]]

(***************************************************************************)
(* The result files the environment writes.                                *)
(***************************************************************************)
SlotNames == <<"P1", "P2", "P3", "P4", "P5", "P6", "P7", "P8">>

Participants(ids) ==
    [n \in {SlotNames[i] : i \in DOMAIN ids} |->
        ids[CHOOSE i \in DOMAIN ids : SlotNames[i] = n]]

Entry(player_name, team, won) ==
    [player_name |-> player_name, team |-> team, won |-> won,
     elo_delta |-> <<>>, elo_after |-> <<>>]

Block(has_scores, scores, action_log) ==
    [has_scores |-> has_scores, scores |-> scores, action_log |-> action_log]

Game(participants, results) == [participants |-> participants, results |-> results]

\* Eight distinct agents.
PDistinct == Participants(<<<<"a">>, <<"b">>, <<"c">>, <<"d">>,
                            <<"e">>, <<"f">>, <<"g">>, <<"h">>>>)
\* One agent in three slots, on both teams.
PMulti == Participants(<<<<"a">>, <<"a">>, <<"c">>, <<"d">>,
                         <<"a">>, <<"f">>, <<"g">>, <<"h">>>>)
\* A slot with an empty agent identifier.
PUnmapped == Participants(<<<<"a">>, <<"b">>, <<"c">>, <<"d">>,
                            <<"e">>, <<"f">>, <<"g">>, NoAgent>>)
\* Two identifiers that differ in a path separator only.
PSlash == Participants(<<<<"a">>, <<"b">>, <<"c">>, <<"t", "/", "x">>,
                         <<"e">>, <<"f">>, <<"g">>, <<"t", "_", "x">>>>)
\* Seven participants.
PSeven == Participants(<<<<"a">>, <<"b">>, <<"c">>, <<"d">>,
                         <<"e">>, <<"f">>, <<"g">>>>)

\* Four werewolves, who all win, then four villagers, who all lose.
SWolvesWin ==
    <<Entry("P1", "werewolves", TRUE), Entry("P2", "werewolves", TRUE),
      Entry("P3", "werewolves", TRUE), Entry("P4", "werewolves", TRUE),
      Entry("P5", "villagers", FALSE), Entry("P6", "villagers", FALSE),
      Entry("P7", "villagers", FALSE), Entry("P8", "villagers", FALSE)>>
\* The villagers win; the two teams alternate in the list.
SVillagersWin ==
    <<Entry("P5", "villagers", TRUE), Entry("P1", "werewolves", FALSE),
      Entry("P6", "villagers", TRUE), Entry("P2", "werewolves", FALSE),
      Entry("P7", "villagers", TRUE), Entry("P3", "werewolves", FALSE),
      Entry("P8", "villagers", TRUE), Entry("P4", "werewolves", FALSE)>>
\* Four entries only, one without a team label, one of a slot that does not exist.
SShort ==
    <<Entry("P1", "werewolves", TRUE), Entry("P5", "villagers", FALSE),
      Entry("P6", "", FALSE), Entry("P9", "villagers", TRUE)>>

GamePool ==
    { Game(PDistinct, <<Block(TRUE, SWolvesWin, <<1, 2>>)>>),
      Game(PDistinct, <<Block(FALSE, <<>>, <<1>>), Block(TRUE, SVillagersWin, <<0, 3>>)>>),
      Game(PMulti, <<Block(TRUE, SVillagersWin, <<>>)>>),
      Game(PUnmapped, <<Block(TRUE, SWolvesWin, <<2>>)>>),
      Game(PSlash, <<Block(TRUE, SWolvesWin, <<2>>)>>),
      Game(PDistinct, <<Block(TRUE, SShort, <<2>>)>>),
      Game(PSeven, <<Block(TRUE, SWolvesWin, <<2>>)>>),
      Game(PDistinct, <<Block(FALSE, <<>>, <<1>>)>>),
      Game(PDistinct, <<Block(TRUE, <<>>, <<>>), Block(TRUE, SWolvesWin, <<2>>)>>) }

(***************************************************************************)
(* State.  On disk: files (results/), eloState (elo_state.json),           *)
(* agentFiles (indexes/agents/), leaderboard and gamesIndex (indexes/).    *)
(* Of a run of main(): pc, state, agent_histories and todo (the result     *)
(* files the loop has not reached).  skipLog holds, for each file, the      *)
(* rejection message that was the last thing a run printed about it.       *)
(***************************************************************************)
VARIABLES files, eloState, agentFiles, leaderboard, gamesIndex,
          pc, state, agent_histories, todo, skipLog

vars == <<files, eloState, agentFiles, leaderboard, gamesIndex,
          pc, state, agent_histories, todo, skipLog>>

disk == <<files, eloState, agentFiles, leaderboard, gamesIndex>>

Init ==
    /\ files = <<>>
    /\ eloState = EmptyState
    /\ agentFiles = <<>>
    /\ leaderboard = <<>>
    /\ gamesIndex = <<>>
    /\ pc = "idle"
    /\ state = EmptyState
    /\ agent_histories = EmptyHistories
    /\ todo = <<>>
    /\ skipLog = {}

\* The environment drops a new result file into results/, named after the others.
AddGame ==
    /\ pc = "idle"
    /\ Cardinality(DOMAIN files) < MaxGames
    /\ \E game_data \in GamePool :
          files' = (Cardinality(DOMAIN files) + 1 :> game_data) @@ files
    /\ UNCHANGED <<eloState, agentFiles, leaderboard, gamesIndex,
                   pc, state, agent_histories, todo, skipLog>>

\* The environment edits a result file that was reported as skipped.
FixGame ==
    /\ pc = "idle"
    /\ \E g \in DOMAIN files, game_data \in GamePool :
          /\ ~AlreadyProcessed(eloState, g)
          /\ \E l \in skipLog : l.game = g
          /\ game_data # files[g]
          /\ files' = [files EXCEPT ![g] = game_data]
    /\ UNCHANGED <<eloState, agentFiles, leaderboard, gamesIndex,
                   pc, state, agent_histories, todo, skipLog>>

\* main, lines 436-455: load the state and the histories, list the result files.
StartRun ==
    /\ pc = "idle"
    /\ pc' = "loop"
    /\ state' = load_elo_state(eloState)
    /\ agent_histories' = load_existing_agent_histories(agentFiles)
    /\ todo' = SortedNames(DOMAIN files)
    /\ UNCHANGED <<files, eloState, agentFiles, leaderboard, gamesIndex, skipLog>>

\* main, lines 461-467: one iteration of the loop over the result files.
ProcessNext ==
    /\ pc = "loop"
    /\ todo # <<>>
    /\ LET filename == Head(todo)
           r == process_game(state, filename, files[filename], agent_histories)
       IN  /\ todo' = Tail(todo)
           /\ IF AlreadyProcessed(state, filename)
              THEN UNCHANGED <<files, state, agent_histories, skipLog>>
              ELSE /\ state' = r.state
                   /\ agent_histories' = r.hist
                   /\ files' = [files EXCEPT ![filename] = r.game_data]
                   /\ skipLog' = {l \in skipLog : l.game # filename}
                                 \cup IF r.outcome \in {"participants", "no scores"}
                                      THEN {[game |-> filename, reason |-> r.outcome]}
                                      ELSE {}
    /\ UNCHANGED <<eloState, agentFiles, leaderboard, gamesIndex, pc>>

\* main, lines 475-484: save the state and generate the three indexes.
FinishRun ==
    /\ pc = "loop"
    /\ todo = <<>>
    /\ eloState' = state
    /\ gamesIndex' = generate_games_index(state, files)
    /\ leaderboard' = generate_leaderboard_index(state)
    /\ agentFiles' = generate_agent_indexes(state, agent_histories, agentFiles)
    /\ pc' = "idle"
    /\ state' = EmptyState
    /\ agent_histories' = EmptyHistories
    /\ UNCHANGED <<files, todo, skipLog>>

Next == AddGame \/ FixGame \/ StartRun \/ ProcessNext \/ FinishRun

Spec == Init /\ [][Next]_vars

(***************************************************************************)
(* A run of main() on an empty results/ directory, from any stored state   *)
(* of four agents: the leaderboard of states that no fold produces.        *)
(***************************************************************************)
LBOrder == <<<<"a">>, <<"b">>, <<"c">>, <<"d">>>>

LBStates ==
    { [order |-> LBOrder, agents |-> agents, processed_games |-> <<>>] :
        agents \in [Range(LBOrder) ->
                      { [NewAgent EXCEPT !.general_elo = e, !.games_played = n, !.wins = n] :
                          e \in {9847, 10000, 10160}, n \in {0, 1} }] }

InitLB ==
    /\ files = <<>>
    /\ eloState \in LBStates
    /\ agentFiles = <<>>
    /\ leaderboard = <<>>
    /\ gamesIndex = <<>>
    /\ pc = "idle"
    /\ state = EmptyState
    /\ agent_histories = EmptyHistories
    /\ todo = <<>>
    /\ skipLog = {}

NextLB == StartRun \/ FinishRun

SpecLB == InitLB /\ [][NextLB]_vars

(***************************************************************************)
(* Properties.                                                             *)
(***************************************************************************)
Abs(x) == IF x < 0 THEN 0 - x ELSE x

Processed(st) == Range(st.processed_games)

\* The loop is about to hand a file it has not processed to process_game.
Attempt == pc = "loop" /\ todo # <<>> /\ Head(todo) \notin Processed(state)

\* The step folds that file.
Folds == Attempt /\ Head(todo) \in Processed(state')

\* The step rejects it.
Rejects == Attempt /\ todo' = Tail(todo) /\ Head(todo) \notin Processed(state')

Played(st, a) == IF a \in DOMAIN st.agents THEN st.agents[a].games_played ELSE 0

Ratings(st) ==
    [a \in DOMAIN st.agents |->
        <<st.agents[a].general_elo, st.agents[a].werewolf_elo, st.agents[a].villager_elo>>]

\* Section 4.2 of the specification: 8 participants and a result block with a
\* non-empty scores list.
SpecValid(game_data) ==
    /\ Cardinality(DOMAIN game_data.participants) = RosterSize
    /\ \E k \in DOMAIN game_data.results :
          game_data.results[k].has_scores /\ game_data.results[k].scores # <<>>

Reverse(s) == [i \in 1..Len(s) |-> s[Len(s) + 1 - i]]

RotateLeft(s) == IF s = <<>> THEN s ELSE Tail(s) \o <<Head(s)>>

Reordered(game_data, scores) ==
    [game_data EXCEPT !.results[FirstScoresBlock(game_data.results, 1)].scores = scores]

\* C1: folding a game with its scores list in another order (reversed, rotated)
\* gives every agent the same general and role-specific ratings.
C1_OrderIndependent ==
    Attempt =>
      LET g == Head(todo)
          r == process_game(state, g, files[g], agent_histories)
          scores == FindScores(files[g].results)
      IN  r.outcome = "folded" =>
            \A permuted \in {Reverse(scores), RotateLeft(scores)} :
               Ratings(process_game(state, g, Reordered(files[g], permuted),
                                    agent_histories).state) = Ratings(r.state)

NoDuplicates(s) == \A i, j \in DOMAIN s : s[i] = s[j] => i = j

\* C2: a processed game stays processed and is listed once; a later run does not
\* rewrite its file, its turn in the loop changes nothing, and a run that folds no
\* game leaves the stored state, the stored histories and the game files as they were.
C2_ReplayNoOp ==
    [][ /\ Processed(eloState) \subseteq Processed(eloState')
        /\ pc' = "loop" => Processed(state) \subseteq Processed(state')
        /\ NoDuplicates(eloState'.processed_games)
        /\ NoDuplicates(state'.processed_games)
        /\ \A g \in Processed(eloState) : files'[g] = files[g]
        /\ (pc = "loop" /\ todo # <<>> /\ Head(todo) \in Processed(eloState))
             => /\ state' = state
                /\ agent_histories' = agent_histories
                /\ disk' = disk
        /\ (pc = "loop" /\ pc' = "idle" /\ Processed(state) = Processed(eloState))
             => /\ eloState' = eloState
                /\ agentFiles' = agentFiles
                /\ files' = files ]_vars

\* A run has gone through every file and all of them were processed before it.
C2_Witness ==
    /\ pc = "loop"
    /\ todo = <<>>
    /\ DOMAIN files # {}
    /\ DOMAIN files = Processed(eloState)
    /\ state = eloState

\* C3: a rejected game changes nothing and is not marked processed; a game once
\* rejected for its roster size is folded at its next turn once it is valid.
C3_RejectedThenFixed ==
    [][ /\ Rejects => /\ state' = state
                      /\ agent_histories' = agent_histories
                      /\ disk' = disk
        /\ ( /\ Attempt
             /\ [game |-> Head(todo), reason |-> "participants"] \in skipLog
             /\ SpecValid(files[Head(todo)]) )
             => Head(todo) \in Processed(state') ]_vars

\* C4: a game that is not processed is rejected exactly when it has not 8
\* participants or no result block holds a non-empty scores list.
C4_RejectsExactlyInvalid ==
    [][ (Attempt /\ todo' = Tail(todo))
          => (Head(todo) \in Processed(state') <=> SpecValid(files[Head(todo)])) ]_vars

Balanced(agent) ==
    /\ agent.games_played = agent.wins + agent.losses
    /\ agent.games_played = agent.games_as_werewolf + agent.games_as_villager
    /\ \A c \in {"games_played", "wins", "losses", "games_as_werewolf",
                 "games_as_villager", "wins_as_werewolf", "wins_as_villager"} :
          agent[c] >= 0

\* C5: every agent of the state, in memory and stored, has
\* games_played = wins + losses = games_as_werewolf + games_as_villager
\* and no negative counter.
C5_CountersBalanced ==
    /\ \A a \in DOMAIN state.agents : Balanced(state.agents[a])
    /\ \A a \in DOMAIN eloState.agents : Balanced(eloState.agents[a])

\* An agent that filled several slots of one game, on both teams, and an entry
\* without a team label have been folded.
C5_Witness ==
    /\ \E a \in DOMAIN eloState.agents :
          /\ eloState.agents[a].games_played >= 3
          /\ eloState.agents[a].games_as_werewolf >= 1
          /\ eloState.agents[a].games_as_villager >= 1
    /\ \E g \in Processed(eloState) :
          \E i \in DOMAIN FindScores(files[g].results) :
             FindScores(files[g].results)[i].team \notin {"werewolves", "villagers"}

Increments == SumSeq([i \in DOMAIN state'.order |->
                        Played(state', state'.order[i]) - Played(state, state'.order[i])])

Unmapped(game_data) ==
    Cardinality({i \in DOMAIN FindScores(game_data.results) :
                   ParticipantsGet(game_data.participants,
                                   FindScores(game_data.results)[i].player_name) = NoAgent})

\* C6 as stated: a fold raises games_played, summed over the agents, by the
\* roster size minus the number of entries with no agent.
C6_Original ==
    [][ Folds => Increments = RosterSize - Unmapped(files[Head(todo)]) ]_vars

\* C6 amended: a fold raises games_played, summed over the agents, by the number
\* of entries of the scores list minus the number of entries with no agent.
C6_Amended ==
    [][ Folds => Increments = Len(FindScores(files[Head(todo)].results))
                              - Unmapped(files[Head(todo)]) ]_vars

\* A game with fewer than 8 entries and a game with an entry without agent are folded.
C6_Witness ==
    /\ pc = "loop"
    /\ \E g \in Processed(state) : Len(FindScores(files[g].results)) < RosterSize
    /\ \E g \in Processed(state) : Unmapped(files[g]) > 0

StoredHistory(a) ==
    IF \E f \in DOMAIN agentFiles : agentFiles[f].agent_id = a
    THEN agentFiles[CHOOSE f \in DOMAIN agentFiles : agentFiles[f].agent_id = a].game_history
    ELSE <<>>

EntriesOf(a, g, p) ==
    Cardinality({i \in DOMAIN FindScores(files[g].results) :
                   /\ FindScores(files[g].results)[i].player_name = p
                   /\ ParticipantsGet(files[g].participants, p) = a})

Recorded(a, g, p) ==
    Cardinality({i \in DOMAIN StoredHistory(a) :
                   StoredHistory(a)[i].game = g /\ StoredHistory(a)[i].player_name = p})

\* C7: between runs, the stored history of every agent holds one entry for each
\* entry of a processed game that is mapped to the agent, and no other.
C7_HistoryComplete ==
    pc = "idle" =>
      \A a \in DOMAIN eloState.agents, g \in DOMAIN files, p \in Range(SlotNames) :
         Recorded(a, g, p) = IF g \in Processed(eloState) THEN EntriesOf(a, g, p) ELSE 0

Position(order, a) == CHOOSE i \in DOMAIN order : order[i] = a

LeaderboardOf(lb, st) ==
    /\ {lb[i].agent_id : i \in DOMAIN lb}
         = {a \in DOMAIN st.agents : st.agents[a].games_played >= 1}
    /\ \A i, j \in DOMAIN lb : lb[i].agent_id = lb[j].agent_id => i = j
    /\ \A i \in DOMAIN lb :
          /\ lb[i].rank = i
          /\ lb[i].general_elo = st.agents[lb[i].agent_id].general_elo
    /\ \A i, j \in DOMAIN lb :
          i < j => /\ lb[i].general_elo >= lb[j].general_elo
                   /\ lb[i].general_elo = lb[j].general_elo
                        => Position(st.order, lb[i].agent_id)
                             < Position(st.order, lb[j].agent_id)

\* C8: the leaderboard a run writes lists exactly the agents of the saved state
\* with games_played >= 1, by general rating non-increasing, ranked 1..N, agents
\* of equal rating in the order of the state's agent dictionary.
C8_Leaderboard ==
    [][ (pc = "loop" /\ pc' = "idle") => LeaderboardOf(leaderboard', eloState') ]_vars

\* A leaderboard with two agents of equal rating, of a state with an agent
\* that has no game.
C8_Witness ==
    /\ pc = "idle"
    /\ \E a \in DOMAIN eloState.agents : eloState.agents[a].games_played = 0
    /\ \E i, j \in DOMAIN leaderboard :
          i < j /\ leaderboard[i].general_elo = leaderboard[j].general_elo

EndToEndGame(game_data) ==
    LET participants == game_data.participants
        scores == FindScores(game_data.results)
        team(t) == {i \in DOMAIN scores : scores[i].team = t}
    IN  /\ Cardinality(DOMAIN participants) = RosterSize
        /\ Cardinality(Range(participants)) = RosterSize
        /\ NoAgent \notin Range(participants)
        /\ Len(scores) = RosterSize
        /\ {scores[i].player_name : i \in DOMAIN scores} = DOMAIN participants
        /\ Cardinality(team("werewolves")) = 4
        /\ Cardinality(team("villagers")) = 4
        /\ \E t \in {"werewolves", "villagers"} :
              \A i \in DOMAIN scores : scores[i].won <=> scores[i].team = t

\* C9: after the fold into the empty state of a game of 8 distinct agents, 4 per
\* team, one team winning, every winner is above 1000.0, every loser below, and
\* the winners' and the losers' deltas sum to the same absolute value within the
\* rounding of 8 deltas (0.05 each).
C9_EndToEnd ==
    \A g \in Processed(state) :
       ( /\ pc = "loop"
         /\ eloState = EmptyState
         /\ state.processed_games = <<g>>
         /\ EndToEndGame(files[g]) )
       => LET scores == FindScores(files[g].results)
              agent(i) == state.agents[files[g].participants[scores[i].player_name]]
              won == SumSeq([i \in DOMAIN scores |->
                               IF scores[i].won THEN scores[i].elo_delta[1] ELSE 0])
              lost == SumSeq([i \in DOMAIN scores |->
                                IF scores[i].won THEN 0 ELSE scores[i].elo_delta[1]])
          IN  /\ \A i \in DOMAIN scores :
                    IF scores[i].won THEN agent(i).general_elo > InitialRating
                    ELSE agent(i).general_elo < InitialRating
              /\ 2 * Abs(Abs(won) - Abs(lost)) <= Len(scores)

====
